---- MODULE Spec2Model ----
(***************************************************************************)
(* Model of remote-sensing/supervised.py: the distributed supervised       *)
(* training loop of UniMatch V2 change detection.  One process per rank    *)
(* runs main(): start-up (optional resume from latest.pth), then for each  *)
(* epoch the training steps (forward, barrier, optimizer step, learning-   *)
(* rate update), evaluate() over the rank's validation shard (three        *)
(* all_reduce calls per batch) and the rank-0 checkpoint step.  The whole  *)
(* process group can be killed from outside and re-invoked.                *)
(*                                                                         *)
(* Floating point values are kept exact:                                   *)
(*   an IoU  I / (U + 1e-10) * 100  is the pair <<I, U>> (<<0,0>> is 0.0), *)
(*   an accuracy  c / t * 100       is the reduced fraction <<c, t>>,      *)
(*   a learning rate cfg.lr * (n/d)^0.9 is the reduced fraction <<n, d>>.  *)
(***************************************************************************)
EXTENDS Integers, Sequences, FiniteSets, TLC

\* ------------------------------------------------------------------ bounds
MaxWorld == 2      \* world_size ranges over 1..MaxWorld
Epochs == 3        \* cfg['epochs']
MaxVal == 2        \* len(valset) ranges over 1..MaxVal
NSample == 4       \* len(trainset): stands for n_upsampled[...]
CfgBatchSize == 1  \* cfg['batch_size'] as read from the config file
MaxKills == 1      \* how often the process group is killed and re-invoked

\* --------------------------------------------------------------- constants
NClass == 2
IgnoreLabel == 255

\* ------------------------------------------------------------------- state
VARIABLES
    world_size,         \* number of ranks in the process group
    valN,               \* len(valset)
    predTable,          \* the network: prediction map per trained state
    kills,              \* number of kills so far
    latest, best,       \* the files latest.pth and best.pth
    pc,                 \* per rank: position in main()/evaluate()
    epoch, i, iters, previous_best_iou, previous_best_acc, is_best,
    model, lr,          \* per rank: replica weights (version), optimizer lr
    lr_head,            \* per rank: lr of the second parameter group
    range_start,        \* per rank: first value of range(epoch + 1, epochs)
    stepLr,             \* per rank: lr in effect at the last optimizer.step()
    checkpoint,         \* per rank: the local variable `checkpoint`
    b,                  \* per rank: index of the validation batch
    pred, mask,         \* per rank: prediction and ground truth of the batch
    reduced,            \* per rank: reduced_intersection/_union/_target
    intersection_meter, union_meter, correct_pixel, total_pixel,
    iou_class, overall_acc,
    ncoll               \* per rank: collective calls issued by this process

vars == <<world_size, valN, predTable, kills, latest, best, pc, epoch, i,
          iters, previous_best_iou, previous_best_acc, is_best, model, lr,
          lr_head, range_start, stepLr, checkpoint, b, pred, mask, reduced, intersection_meter,
          union_meter, correct_pixel, total_pixel, iou_class, overall_acc,
          ncoll>>

envVars == <<world_size, valN, predTable>>
fileVars == <<latest, best>>
trainVars == <<epoch, i, iters, model, lr, lr_head, range_start, stepLr>>
bestVars == <<previous_best_iou, previous_best_acc, is_best>>
evalVars == <<b, pred, mask, reduced, intersection_meter, union_meter,
              correct_pixel, total_pixel, iou_class, overall_acc>>

Ranks == 0 .. (world_size - 1)

\* ------------------------------------------------------------ arithmetic
RECURSIVE GCD(_, _)
GCD(x, y) == IF y = 0 THEN x ELSE GCD(y, x % y)

\* c / t as a float: equal quotients are equal floats
Frac(c, t) == IF c = 0 THEN <<0, 1>> ELSE <<c \div GCD(c, t), t \div GCD(c, t)>>

FracLt(x, y) == x[1] * y[2] < y[1] * x[2]

\* I / (U + 1e-10) * 100; a zero intersection gives exactly 0.0
IoUVal(I, U) == IF I = 0 THEN <<0, 0>> ELSE <<I, U>>

\* x >= y for x = I1/(U1+eps), y = I2/(U2+eps):
\*   I1*U2 - I2*U1 + eps*(I1 - I2) >= 0 with eps tiny and positive
IoUGeq(x, y) ==
    LET d == x[1] * y[2] - y[1] * x[2]
    IN  d > 0 \/ (d = 0 /\ x[1] >= y[1])

IoUMax(x, y) == IF IoUGeq(y, x) /\ y # x THEN y ELSE x

CeilDiv(x, y) == (x + y - 1) \div y

Zeros == [c \in 1..NClass |-> 0]
VecAdd(x, y) == [c \in 1..NClass |-> x[c] + y[c]]

RECURSIVE SumOver(_, _)
SumOver(S, f) ==
    IF S = {} THEN 0
    ELSE LET x == CHOOSE x \in S : TRUE IN f[x] + SumOver(S \ {x}, f)

\* ------------------------------------------------ configuration and data
\* line 91: cfg['batch_size'] *= 2
BatchSize == CfgBatchSize * 2

\* DistributedSampler(dataset): every rank gets ceil(n / world_size) samples
NumSamples(n, ws) == CeilDiv(n, ws)

\* len(trainloader): batches of the rank's train shard, drop_last=True
LenTrainLoader == NumSamples(NSample, world_size) \div BatchSize

\* len(valloader) on rank r: batch_size=1, drop_last=False, so one batch
\* per sample of the rank's shard
LenValLoaderMut(r) == Cardinality({k \in 0..(valN - 1) : k % world_size = r})
LenValLoader(r) == NumSamples(valN, world_size)

\* line 142
total_iters == LenTrainLoader * Epochs

\* DistributedSampler.__iter__: the index list is padded to
\* world_size * num_samples by repeating it from the front, and rank r
\* takes the positions r, r + world_size, r + 2*world_size, ...
ValSample(r, j) == (r + j * world_size) % valN

\* ground truth of the validation samples (two pixels each)
MaskList == << <<1, 0>>, <<0, IgnoreLabel>>, <<1, 1>> >>
ValMask(s) == MaskList[(s % Len(MaskList)) + 1]

\* argmax maps the network can produce for an image
PredMaps == { <<1, 1>>, <<0, 0>>, <<1, 0>> }

\* the network is a deterministic function of its weights: the weights
\* reached after e full epochs give predTable[e]
EvalIndex(v) ==
    IF LenTrainLoader > 0 /\ v % LenTrainLoader = 0
          /\ (v \div LenTrainLoader) \in 1..Epochs
    THEN v \div LenTrainLoader
    ELSE (v % Epochs) + 1

Predict(v, s) == predTable[EvalIndex(v)]

\* ------------------------------------------- util.utils (metric counting)
Pixels(img) == 1..Len(img)
Count(S) == Cardinality(S)

\* intersectionAndUnion(output, target, K, ignore_index)
AreaIntersection(p, m) ==
    [c \in 1..NClass |->
        Count({k \in Pixels(p) : m[k] # IgnoreLabel /\ p[k] = m[k] /\ p[k] = c - 1})]
AreaOutput(p, m) ==
    [c \in 1..NClass |->
        Count({k \in Pixels(p) : m[k] # IgnoreLabel /\ p[k] = c - 1})]
AreaTarget(p, m) ==
    [c \in 1..NClass |-> Count({k \in Pixels(p) : m[k] = c - 1})]
AreaUnion(p, m) ==
    [c \in 1..NClass |->
        AreaOutput(p, m)[c] + AreaTarget(p, m)[c] - AreaIntersection(p, m)[c]]

\* AverageMeter.update(val): sum += val
MeterUpdate(sum, val) == sum + val
MeterUpdateVec(sum, val) == VecAdd(sum, val)

\* line 72: (pred == mask).sum()      line 73: pred.numel()
CorrectPixels(p, m) == Count({k \in Pixels(p) : p[k] = m[k]})
Numel(p) == Len(p)

\* dist.all_reduce(t): every rank receives the element-wise sum
AllReduceSumMut(t) == t[0]
AllReduceSum(t) == [c \in 1..NClass |-> SumOver(Ranks, [r \in Ranks |-> t[r][c]])]

\* lines 75-76
IoUClass(isum, usum) == [c \in 1..NClass |-> IoUVal(isum[c], usum[c])]
OverallAcc(csum, tsum) == Frac(csum, tsum)

\* ------------------------------------------------------ learning rate
\* line 183
GlobalIterMut(e, step) == (e + 1) * LenTrainLoader + step
GlobalIter(e, step) == e * LenTrainLoader + step
\* line 184: cfg['lr'] * (1 - iters / total_iters) ** 0.9
LrAtMut(it) ==
    Frac(total_iters - (it \div LenTrainLoader) * LenTrainLoader, total_iters)
LrAt(it) == Frac(total_iters - it, total_iters)
BaseLr == <<1, 1>>
\* line 179 runs before lines 184-186: optimizer.step() uses the rate that
\* was set before the step, not the one the step is about to assign
StepRateMut(old, new) == new
StepRate(old, new) == old
\* lines 117, 186: the rate of the second group is the product of the rate
\* of the first and cfg['lr_multi']; the product is kept as its two factors
LrMulti == 2
HeadLr(x) == <<x, LrMulti>>

\* -------------------------------------------------------- checkpoints
\* lines 206-209
IsBestMut(iou, prev) == IoUGeq(iou, prev) /\ iou # prev
IsBest(iou, prev) == IoUGeq(iou, prev)

NextBestIouMut(iou, prev) == iou
NextBestIou(iou, prev) == IoUMax(iou, prev)

NextBestAccMut(isb, acc, prev) == IF isb \/ FracLt(prev, acc) THEN acc ELSE prev
NextBestAcc(isb, acc, prev) == IF isb THEN acc ELSE prev

\* lines 211, 197, 188: only rank 0 writes
IsWriterMut(w) == TRUE
IsWriter(w) == w = 0

\* lines 212-218
CheckpointOf(w) ==
    [model |-> model[w], optimizer |-> <<lr[w], lr_head[w]>>,
     epoch |-> epoch[w],
     previous_best_iou |-> previous_best_iou[w],
     previous_best_acc |-> previous_best_acc[w]]

NoRec == [model |-> 0, optimizer |-> <<BaseLr, HeadLr(BaseLr)>>, epoch |-> -1,
          previous_best_iou |-> <<0, 0>>, previous_best_acc |-> <<0, 1>>]
Absent == [status |-> "absent", rec |-> NoRec]

\* os.path.exists: a file that is being written, or was left half written,
\* exists
ExistsMut(f) == f.status = "ok"
Exists(f) == f.status # "absent"

\* lines 150-151: what start-up takes from the loaded record
LoadedEpochMut(rec) == rec.epoch - 1
LoadedEpoch(rec) == rec.epoch

LoadedBestIouMut(rec) == <<0, 0>>
LoadedBestIou(rec) == rec.previous_best_iou

\* line 157: range(epoch + 1, cfg['epochs'])
NextEpochMut(e) == e + 2
NextEpoch(e) == e + 1
\* before line 157 is reached there is no range object
NoRange == -1
\* line 157: the first evaluation of the for statement builds the range
RangeStart(w) ==
    IF range_start[w] = NoRange THEN NextEpoch(epoch[w]) ELSE range_start[w]

\* --------------------------------------------------------- initial state
Const(R, v) == [r \in R |-> v]
NoTensors == [int |-> Zeros, uni |-> Zeros, tgt |-> Zeros]
NoIou == [c \in 1..NClass |-> <<0, 0>>]
NoImage == << >>

Init ==
    /\ world_size \in 1..MaxWorld
    /\ valN \in 1..MaxVal
    /\ predTable \in [1..Epochs -> PredMaps]
    /\ kills = 0
    /\ latest = Absent
    /\ best = Absent
    /\ pc = Const(Ranks, "start")
    /\ epoch = Const(Ranks, -1)
    /\ i = Const(Ranks, 0)
    /\ iters = Const(Ranks, 0)
    /\ previous_best_iou = Const(Ranks, <<0, 0>>)
    /\ previous_best_acc = Const(Ranks, <<0, 1>>)
    /\ is_best = Const(Ranks, FALSE)
    /\ model = Const(Ranks, 0)
    /\ lr = Const(Ranks, BaseLr)
    /\ lr_head = Const(Ranks, HeadLr(BaseLr))
    /\ range_start = Const(Ranks, NoRange)
    /\ stepLr = Const(Ranks, BaseLr)
    /\ checkpoint = Const(Ranks, NoRec)
    /\ b = Const(Ranks, 0)
    /\ pred = Const(Ranks, NoImage)
    /\ mask = Const(Ranks, NoImage)
    /\ reduced = Const(Ranks, NoTensors)
    /\ intersection_meter = Const(Ranks, Zeros)
    /\ union_meter = Const(Ranks, Zeros)
    /\ correct_pixel = Const(Ranks, 0)
    /\ total_pixel = Const(Ranks, 0)
    /\ iou_class = Const(Ranks, NoIou)
    /\ overall_acc = Const(Ranks, <<0, 1>>)
    /\ ncoll = Const(Ranks, 0)

\* ----------------------------------------------------- start-up (141-155)
\* line 146: os.path.exists(latest.pth)
CheckExists(w) ==
    /\ pc[w] = "start"
    /\ pc' = [pc EXCEPT ![w] = IF Exists(latest) THEN "load" ELSE "for"]
    /\ UNCHANGED <<envVars, kills, fileVars, trainVars, bestVars, checkpoint,
                   evalVars, ncoll>>

\* lines 147-152: torch.load and the restores
Load(w) ==
    /\ pc[w] = "load"
    /\ latest.status = "ok"
    /\ checkpoint' = [checkpoint EXCEPT ![w] = latest.rec]
    /\ model' = [model EXCEPT ![w] = latest.rec.model]
    /\ lr' = [lr EXCEPT ![w] = latest.rec.optimizer[1]]
    /\ lr_head' = [lr_head EXCEPT ![w] = latest.rec.optimizer[2]]
    /\ epoch' = [epoch EXCEPT ![w] = LoadedEpoch(latest.rec)]
    /\ previous_best_iou' =
           [previous_best_iou EXCEPT ![w] = LoadedBestIou(latest.rec)]
    /\ previous_best_acc' =
           [previous_best_acc EXCEPT ![w] = latest.rec.previous_best_acc]
    /\ pc' = [pc EXCEPT ![w] = "for"]
    /\ UNCHANGED <<envVars, kills, fileVars, i, iters, range_start, stepLr,
                   is_best, evalVars, ncoll>>

\* line 147: torch.load raises on a file that is not a complete record
LoadFails(w) ==
    /\ pc[w] = "load"
    /\ latest.status # "ok"
    /\ pc' = [pc EXCEPT ![w] = "fatal"]
    /\ UNCHANGED <<envVars, kills, fileVars, trainVars, bestVars, checkpoint,
                   evalVars, ncoll>>

\* lines 65-67, 175: a collective call returns once every rank of the
\* group has made the same call
AllArrived(p) == \A w \in Ranks : pc[w] = p
ReleasedMut(p) == {w \in Ranks : pc[w] = p}
Released(p) == IF AllArrived(p) THEN Ranks ELSE {}

\* line 175: torch.distributed.barrier()
BarrierReleasedMut == {w \in Ranks : pc[w] = "barrier"}
BarrierReleased == Released("barrier")

\* ------------------------------------------------- epoch loop (157-195)
\* line 157, 162-165: next value of the range
EpochBegin(w) ==
    /\ pc[w] = "for"
    /\ NextEpoch(epoch[w]) < Epochs
    /\ epoch' = [epoch EXCEPT ![w] = NextEpoch(epoch[w])]
    /\ range_start' = [range_start EXCEPT ![w] = RangeStart(w)]
    /\ i' = [i EXCEPT ![w] = 0]
    /\ pc' = [pc EXCEPT ![w] = IF LenTrainLoader > 0 THEN "train" ELSE "eval"]
    /\ UNCHANGED <<envVars, kills, fileVars, iters, model, lr, lr_head,
                   stepLr, bestVars, checkpoint, evalVars, ncoll>>

\* line 157: the range is exhausted, main() returns
Finish(w) ==
    /\ pc[w] = "for"
    /\ ~(NextEpoch(epoch[w]) < Epochs)
    /\ range_start' = [range_start EXCEPT ![w] = RangeStart(w)]
    /\ pc' = [pc EXCEPT ![w] = "done"]
    /\ UNCHANGED <<envVars, kills, fileVars, epoch, i, iters, model, lr,
                   lr_head, stepLr, bestVars, checkpoint, evalVars, ncoll>>

\* lines 167-175: forward, loss, then the call of barrier()
Forward(w) ==
    /\ pc[w] = "train"
    /\ pc' = [pc EXCEPT ![w] = "barrier"]
    /\ ncoll' = [ncoll EXCEPT ![w] = @ + 1]
    /\ UNCHANGED <<envVars, kills, fileVars, trainVars, bestVars, checkpoint,
                   evalVars>>

\* line 175: barrier() returns once every rank has called it
Barrier ==
    /\ BarrierReleased # {}
    /\ pc' = [w \in Ranks |->
                IF w \in BarrierReleased THEN "opt" ELSE pc[w]]
    /\ UNCHANGED <<envVars, kills, fileVars, trainVars, bestVars, checkpoint,
                   evalVars, ncoll>>

\* lines 177-186: zero_grad, backward, optimizer.step, lr update
OptimizerStep(w) ==
    /\ pc[w] = "opt"
    /\ stepLr' = [stepLr EXCEPT
                     ![w] = StepRate(lr[w], LrAt(GlobalIter(epoch[w], i[w])))]
    /\ model' = [model EXCEPT ![w] = @ + 1]
    /\ iters' = [iters EXCEPT ![w] = GlobalIter(epoch[w], i[w])]
    /\ lr' = [lr EXCEPT ![w] = LrAt(GlobalIter(epoch[w], i[w]))]
    /\ lr_head' = [lr_head EXCEPT
                      ![w] = HeadLr(LrAt(GlobalIter(epoch[w], i[w])))]
    /\ i' = [i EXCEPT ![w] = @ + 1]
    /\ pc' = [pc EXCEPT ![w] =
                 IF i[w] + 1 < LenTrainLoader THEN "train" ELSE "eval"]
    /\ UNCHANGED <<envVars, kills, fileVars, epoch, range_start, bestVars, checkpoint,
                   evalVars, ncoll>>

\* ---------------------------------------------------- evaluate (32-78)
\* lines 33-37: fresh meters
EvalBegin(w) ==
    /\ pc[w] = "eval"
    /\ intersection_meter' = [intersection_meter EXCEPT ![w] = Zeros]
    /\ union_meter' = [union_meter EXCEPT ![w] = Zeros]
    /\ correct_pixel' = [correct_pixel EXCEPT ![w] = 0]
    /\ total_pixel' = [total_pixel EXCEPT ![w] = 0]
    /\ b' = [b EXCEPT ![w] = 0]
    /\ pc' = [pc EXCEPT ![w] =
                 IF LenValLoader(w) > 0 THEN "eval_batch" ELSE "eval_end"]
    /\ UNCHANGED <<envVars, kills, fileVars, trainVars, bestVars, checkpoint,
                   pred, mask, reduced, iou_class, overall_acc, ncoll>>

\* lines 40-65: predict the batch, count, call the first all_reduce
EvalBatch(w) ==
    /\ pc[w] = "eval_batch"
    /\ LET s == ValSample(w, b[w])
           p == Predict(model[w], s)
           m == ValMask(s)
       IN  /\ pred' = [pred EXCEPT ![w] = p]
           /\ mask' = [mask EXCEPT ![w] = m]
           /\ reduced' = [reduced EXCEPT ![w] =
                  [int |-> AreaIntersection(p, m),
                   uni |-> AreaUnion(p, m),
                   tgt |-> AreaTarget(p, m)]]
    /\ pc' = [pc EXCEPT ![w] = "ar_int"]
    /\ ncoll' = [ncoll EXCEPT ![w] = @ + 1]
    /\ UNCHANGED <<envVars, kills, fileVars, trainVars, bestVars, checkpoint,
                   b, intersection_meter, union_meter, correct_pixel,
                   total_pixel, iou_class, overall_acc>>

\* line 65 returns on every rank; every rank calls line 66
AllReduceIntersection ==
    /\ Released("ar_int") # {}
    /\ reduced' = [w \in Ranks |->
          IF w \in Released("ar_int")
          THEN [reduced[w] EXCEPT
                  !.int = AllReduceSum([r \in Ranks |-> reduced[r].int])]
          ELSE reduced[w]]
    /\ pc' = [w \in Ranks |->
                IF w \in Released("ar_int") THEN "ar_uni" ELSE pc[w]]
    /\ ncoll' = [w \in Ranks |->
                   IF w \in Released("ar_int") THEN ncoll[w] + 1 ELSE ncoll[w]]
    /\ UNCHANGED <<envVars, kills, fileVars, trainVars, bestVars, checkpoint,
                   b, pred, mask, intersection_meter, union_meter,
                   correct_pixel, total_pixel, iou_class, overall_acc>>

\* line 66 returns on every rank; every rank calls line 67
AllReduceUnion ==
    /\ Released("ar_uni") # {}
    /\ reduced' = [w \in Ranks |->
          IF w \in Released("ar_uni")
          THEN [reduced[w] EXCEPT
                  !.uni = AllReduceSum([r \in Ranks |-> reduced[r].uni])]
          ELSE reduced[w]]
    /\ pc' = [w \in Ranks |->
                IF w \in Released("ar_uni") THEN "ar_tgt" ELSE pc[w]]
    /\ ncoll' = [w \in Ranks |->
                   IF w \in Released("ar_uni") THEN ncoll[w] + 1 ELSE ncoll[w]]
    /\ UNCHANGED <<envVars, kills, fileVars, trainVars, bestVars, checkpoint,
                   b, pred, mask, intersection_meter, union_meter,
                   correct_pixel, total_pixel, iou_class, overall_acc>>

\* line 67 returns on every rank
AllReduceTarget ==
    /\ Released("ar_tgt") # {}
    /\ reduced' = [w \in Ranks |->
          IF w \in Released("ar_tgt")
          THEN [reduced[w] EXCEPT
                  !.tgt = AllReduceSum([r \in Ranks |-> reduced[r].tgt])]
          ELSE reduced[w]]
    /\ pc' = [w \in Ranks |->
                IF w \in Released("ar_tgt") THEN "meter" ELSE pc[w]]
    /\ UNCHANGED <<envVars, kills, fileVars, trainVars, bestVars, checkpoint,
                   b, pred, mask, intersection_meter, union_meter,
                   correct_pixel, total_pixel, iou_class, overall_acc, ncoll>>

\* lines 69-73: the four meter updates, then the next batch
MeterStep(w) ==
    /\ pc[w] = "meter"
    /\ intersection_meter' = [intersection_meter EXCEPT
                                 ![w] = MeterUpdateVec(@, reduced[w].int)]
    /\ union_meter' = [union_meter EXCEPT
                          ![w] = MeterUpdateVec(@, reduced[w].uni)]
    /\ correct_pixel' = [correct_pixel EXCEPT
                            ![w] = MeterUpdate(@, CorrectPixels(pred[w], mask[w]))]
    /\ total_pixel' = [total_pixel EXCEPT
                          ![w] = MeterUpdate(@, Numel(pred[w]))]
    /\ b' = [b EXCEPT ![w] = @ + 1]
    /\ pc' = [pc EXCEPT ![w] =
                 IF b[w] + 1 < LenValLoader(w) THEN "eval_batch" ELSE "eval_end"]
    /\ UNCHANGED <<envVars, kills, fileVars, trainVars, bestVars, checkpoint,
                   pred, mask, reduced, iou_class, overall_acc, ncoll>>

\* lines 75-78 and 195-211: final ratios, is_best, best trackers
EvalEnd(w) ==
    /\ pc[w] = "eval_end"
    /\ LET iou == IoUClass(intersection_meter[w], union_meter[w])
           acc == OverallAcc(correct_pixel[w], total_pixel[w])
           isb == IsBest(iou[2], previous_best_iou[w])
       IN  /\ iou_class' = [iou_class EXCEPT ![w] = iou]
           /\ overall_acc' = [overall_acc EXCEPT ![w] = acc]
           /\ is_best' = [is_best EXCEPT ![w] = isb]
           /\ previous_best_iou' = [previous_best_iou EXCEPT
                  ![w] = NextBestIou(iou[2], previous_best_iou[w])]
           /\ previous_best_acc' = [previous_best_acc EXCEPT
                  ![w] = NextBestAcc(isb, acc, previous_best_acc[w])]
    /\ pc' = [pc EXCEPT ![w] = IF IsWriter(w) THEN "ckpt" ELSE "for"]
    /\ UNCHANGED <<envVars, kills, fileVars, trainVars, checkpoint, b, pred,
                   mask, reduced, intersection_meter, union_meter,
                   correct_pixel, total_pixel, ncoll>>

\* -------------------------------------------- checkpoint step (211-221)
\* lines 212-219: build the record, torch.save opens latest.pth for writing
SaveLatestBegin(w) ==
    /\ pc[w] = "ckpt"
    /\ checkpoint' = [checkpoint EXCEPT ![w] = CheckpointOf(w)]
    /\ latest' = [status |-> "partial", rec |-> CheckpointOf(w)]
    /\ pc' = [pc EXCEPT ![w] = "save_latest"]
    /\ UNCHANGED <<envVars, kills, best, trainVars, bestVars, evalVars, ncoll>>

\* line 219: torch.save has written the whole record; line 220
SaveLatestEnd(w) ==
    /\ pc[w] = "save_latest"
    /\ latest' = [status |-> "ok", rec |-> checkpoint[w]]
    /\ pc' = [pc EXCEPT ![w] = IF is_best[w] THEN "best" ELSE "for"]
    /\ UNCHANGED <<envVars, kills, best, trainVars, bestVars, checkpoint,
                   evalVars, ncoll>>

\* line 221: torch.save opens best.pth for writing
SaveBestBegin(w) ==
    /\ pc[w] = "best"
    /\ best' = [status |-> "partial", rec |-> checkpoint[w]]
    /\ pc' = [pc EXCEPT ![w] = "save_best"]
    /\ UNCHANGED <<envVars, kills, latest, trainVars, bestVars, checkpoint,
                   evalVars, ncoll>>

\* line 221: torch.save has written the whole record
SaveBestEnd(w) ==
    /\ pc[w] = "save_best"
    /\ best' = [status |-> "ok", rec |-> checkpoint[w]]
    /\ pc' = [pc EXCEPT ![w] = "for"]
    /\ UNCHANGED <<envVars, kills, latest, trainVars, bestVars, checkpoint,
                   evalVars, ncoll>>

\* ---------------------------------------------------- kill and re-invoke
\* the process group is killed from outside and the entry point is invoked
\* again: every rank starts main() afresh, the files stay as they are
Kill ==
    /\ kills < MaxKills
    /\ kills' = kills + 1
    /\ pc' = Const(Ranks, "start")
    /\ epoch' = Const(Ranks, -1)
    /\ i' = Const(Ranks, 0)
    /\ iters' = Const(Ranks, 0)
    /\ previous_best_iou' = Const(Ranks, <<0, 0>>)
    /\ previous_best_acc' = Const(Ranks, <<0, 1>>)
    /\ is_best' = Const(Ranks, FALSE)
    /\ model' = Const(Ranks, 0)
    /\ lr' = Const(Ranks, BaseLr)
    /\ lr_head' = Const(Ranks, HeadLr(BaseLr))
    /\ range_start' = Const(Ranks, NoRange)
    /\ stepLr' = Const(Ranks, BaseLr)
    /\ checkpoint' = Const(Ranks, NoRec)
    /\ b' = Const(Ranks, 0)
    /\ pred' = Const(Ranks, NoImage)
    /\ mask' = Const(Ranks, NoImage)
    /\ reduced' = Const(Ranks, NoTensors)
    /\ intersection_meter' = Const(Ranks, Zeros)
    /\ union_meter' = Const(Ranks, Zeros)
    /\ correct_pixel' = Const(Ranks, 0)
    /\ total_pixel' = Const(Ranks, 0)
    /\ iou_class' = Const(Ranks, NoIou)
    /\ overall_acc' = Const(Ranks, <<0, 1>>)
    /\ ncoll' = Const(Ranks, 0)
    /\ UNCHANGED <<envVars, fileVars>>

Next ==
    \/ \E w \in Ranks : CheckExists(w)
    \/ \E w \in Ranks : Load(w)
    \/ \E w \in Ranks : LoadFails(w)
    \/ \E w \in Ranks : EpochBegin(w)
    \/ \E w \in Ranks : Finish(w)
    \/ \E w \in Ranks : Forward(w)
    \/ Barrier
    \/ \E w \in Ranks : OptimizerStep(w)
    \/ \E w \in Ranks : EvalBegin(w)
    \/ \E w \in Ranks : EvalBatch(w)
    \/ AllReduceIntersection
    \/ AllReduceUnion
    \/ AllReduceTarget
    \/ \E w \in Ranks : MeterStep(w)
    \/ \E w \in Ranks : EvalEnd(w)
    \/ \E w \in Ranks : SaveLatestBegin(w)
    \/ \E w \in Ranks : SaveLatestEnd(w)
    \/ \E w \in Ranks : SaveBestBegin(w)
    \/ \E w \in Ranks : SaveBestEnd(w)
    \/ Kill

Spec == Init /\ [][Next]_vars

\* every live process keeps running: a step of main() or a collective that
\* can be taken is taken; a kill comes from outside and need not happen
Run == Next /\ kills' = kills
FairSpec == Spec /\ WF_vars(Run)

\* ================================================================ claims
\* a rank has finished evaluate() in this process and not started the next
Evaluated(w) == pc[w] \in {"ckpt", "save_latest", "best", "save_best", "for", "done"}
                    /\ total_pixel[w] > 0
KillStep == kills' # kills

\* C1: latest.pth and best.pth are written by rank 0 only: every step that
\* changes one of the two files is a step of rank 0 inside its checkpoint
\* step, and no other rank ever stands in the checkpoint step.
C1_OnlyRankZeroWrites ==
    [][ /\ (latest' # latest \/ best' # best) =>
              /\ pc[0] \in {"ckpt", "save_latest", "best", "save_best"}
              /\ \A w \in Ranks \ {0} : pc'[w] = pc[w]
        /\ \A w \in Ranks \ {0} :
              pc'[w] \notin {"ckpt", "save_latest", "best", "save_best"} ]_vars

C1_Witness ==
    /\ world_size >= 2
    /\ kills >= 1
    /\ latest.status = "ok" /\ latest.rec.epoch >= 1
    /\ best.status = "ok"
    /\ checkpoint[1].epoch >= 0
    /\ pc[1] = "for" /\ epoch[1] = latest.rec.epoch

\* C2: at every epoch boundary rank 0 overwrites latest.pth with the state
\* of that epoch, and best.pth is written in that epoch exactly when the
\* epoch's changed-class IoU is >= the best IoU held before the epoch (a
\* tie writes); in an epoch with a strictly lower IoU best.pth keeps the
\* record of an earlier epoch.
C2_LatestAlwaysBestIffGeq ==
    /\ [][ \A w \in Ranks :
              (pc[w] = "eval_end" /\ pc'[w] \in {"ckpt", "for"}) =>
                  (is_best'[w] <=>
                      IoUGeq(iou_class'[w][2], previous_best_iou[w])) ]_vars
    /\ [][ best' # best => pc[0] \in {"best", "save_best"} /\ is_best[0] ]_vars
    /\ []( (pc[0] \in {"for", "done"} /\ total_pixel[0] > 0) =>
              /\ latest.status = "ok"
              /\ latest.rec = CheckpointOf(0)
              /\ is_best[0] <=> (best.status = "ok" /\ best.rec = latest.rec)
              /\ ~is_best[0] => best.rec.epoch < epoch[0] )

C2_Witness ==
    /\ pc[0] = "for" /\ epoch[0] = 2
    /\ ~is_best[0]
    /\ best.status = "ok" /\ best.rec.epoch = 1
    /\ best.rec.previous_best_iou = latest.rec.previous_best_iou
    /\ \E I \in 1..4, U \in 1..4 : best.rec.previous_best_iou = <<I, U>>

\* C3 (as stated): neither the best IoU stored in latest.pth nor the best
\* IoU held in memory by any rank ever decreases, kill and resume included.
C3_Original ==
    [][ /\ Exists(latest) =>
              IoUGeq(latest'.rec.previous_best_iou, latest.rec.previous_best_iou)
        /\ \A w \in Ranks :
              IoUGeq(previous_best_iou'[w], previous_best_iou[w]) ]_vars

\* C3 (amended): the best IoU stored in latest.pth never decreases, kill
\* and resume included, and the best IoU held in memory by a rank never
\* decreases while its process runs (start-up load included); the kill
\* itself discards the in-memory value.
C3_StoredBestMonotone ==
    [][ /\ Exists(latest) =>
              /\ Exists(latest')
              /\ IoUGeq(latest'.rec.previous_best_iou,
                        latest.rec.previous_best_iou)
        /\ ~KillStep =>
              \A w \in Ranks :
                  IoUGeq(previous_best_iou'[w], previous_best_iou[w]) ]_vars

C3_Witness ==
    /\ world_size >= 2
    /\ kills >= 1
    /\ checkpoint[1].epoch >= 0
    /\ \E w \in Ranks :
          /\ Evaluated(w) /\ epoch[w] > checkpoint[1].epoch
          /\ ~is_best[w]
          /\ previous_best_iou[w] # <<0, 0>>
    /\ latest.status = "ok" /\ latest.rec.epoch > checkpoint[1].epoch

\* C4: previous_best_acc changes in an epoch only when the epoch's changed-
\* class IoU is >= the best IoU held before, and then becomes the overall
\* accuracy evaluate() returned in that epoch; in every other epoch it
\* keeps its value, also when the epoch's accuracy is higher.
C4_BestAccOnlyWithBestIou ==
    [][ ~KillStep => \A w \in Ranks :
          /\ (pc[w] = "eval_end" /\ pc'[w] # "eval_end") =>
                /\ overall_acc'[w] = Frac(correct_pixel[w], total_pixel[w])
                /\ previous_best_acc'[w] =
                      IF IoUGeq(iou_class'[w][2], previous_best_iou[w])
                      THEN overall_acc'[w]
                      ELSE previous_best_acc[w]
          /\ pc[w] \notin {"eval_end", "load"} =>
                previous_best_acc'[w] = previous_best_acc[w] ]_vars

C4_Witness ==
    \E w \in Ranks :
        /\ Evaluated(w)
        /\ ~is_best[w]
        /\ FracLt(previous_best_acc[w], overall_acc[w])

\* ------------------------------------------- reference computations
\* the positions of main() inside one epoch, before the best trackers move
RunPcs == {"train", "barrier", "opt", "eval", "eval_batch", "ar_int",
           "ar_uni", "ar_tgt", "meter", "eval_end"}
CollPcs == {"barrier", "ar_int", "ar_uni", "ar_tgt"}

\* a rank has not completed an epoch in this process yet
AtStartOfLoop(w) == pc[w] = "for" /\ total_pixel[w] = 0

\* the batches of rank r's validation shard
ShardBatches(r) == 0 .. (LenValLoader(r) - 1)

\* per-batch counts of rank r's j-th batch with the weights v
BatchInt(v, r, j) ==
    AreaIntersection(Predict(v, ValSample(r, j)), ValMask(ValSample(r, j)))
BatchUni(v, r, j) ==
    AreaUnion(Predict(v, ValSample(r, j)), ValMask(ValSample(r, j)))
BatchCorrect(v, r, j) ==
    CorrectPixels(Predict(v, ValSample(r, j)), ValMask(ValSample(r, j)))
BatchNumel(v, r, j) == Numel(Predict(v, ValSample(r, j)))

\* sums over all ranks and all batches of every rank's shard
AllPairs == {rj \in Ranks \X (0 .. MaxVal) : rj[2] \in ShardBatches(rj[1])}
TotalInt(v) ==
    [c \in 1..NClass |->
        SumOver(AllPairs, [rj \in AllPairs |-> BatchInt(v, rj[1], rj[2])[c]])]
TotalUni(v) ==
    [c \in 1..NClass |->
        SumOver(AllPairs, [rj \in AllPairs |-> BatchUni(v, rj[1], rj[2])[c]])]
TotalCorrect(v) ==
    SumOver(AllPairs, [rj \in AllPairs |-> BatchCorrect(v, rj[1], rj[2])])
TotalNumel(v) ==
    SumOver(AllPairs, [rj \in AllPairs |-> BatchNumel(v, rj[1], rj[2])])

\* the run that is never interrupted: weights at the end of epoch e, the
\* changed-class IoU it measures, and lines 206-207 folded over the epochs
WeightsAfter(e) == (e + 1) * LenTrainLoader
EpochIou(e) == IoUClass(TotalInt(WeightsAfter(e)), TotalUni(WeightsAfter(e)))[2]
RECURSIVE UninterruptedBest(_)
UninterruptedBest(e) ==
    IF e < 0 THEN <<0, 0>>
    ELSE IoUMax(EpochIou(e), UninterruptedBest(e - 1))
UninterruptedIsBest(e) == IoUGeq(EpochIou(e), UninterruptedBest(e - 1))

\* C5: a rank that finds no latest.pth enters the loop with epoch 0 and
\* best values 0; a rank that finds one holds exactly the stored record
\* when it enters the loop and its first epoch is the stored epoch + 1;
\* the epoch rank 0 executes is always the one after the epoch stored in
\* latest.pth (0 without a file), so none is run twice and none is skipped.
C5_ResumeAtNextEpoch ==
    /\ []( \A w \in Ranks : AtStartOfLoop(w) =>
              IF Exists(latest)
              THEN /\ latest.status = "ok"
                   /\ CheckpointOf(w) = latest.rec
              ELSE CheckpointOf(w) = NoRec )
    /\ [][ \A w \in Ranks :
              (AtStartOfLoop(w) /\ pc'[w] \in RunPcs) =>
                  epoch'[w] = IF Exists(latest) THEN latest.rec.epoch + 1 ELSE 0
         ]_vars
    /\ []( (pc[0] \in RunPcs \cup {"ckpt"}) =>
              /\ epoch[0] = IF Exists(latest) THEN latest.rec.epoch + 1 ELSE 0
              /\ epoch[0] \in 0 .. (Epochs - 1) )

C5_Witness ==
    /\ kills >= 1
    /\ latest.status = "ok" /\ latest.rec.epoch = 1
    /\ latest.rec.previous_best_iou # <<0, 0>>
    /\ \A w \in Ranks : pc[w] = "eval_end" /\ epoch[w] = 2
    /\ model[0] = 3 * LenTrainLoader /\ LenTrainLoader > 0
    /\ IF world_size >= 2 THEN checkpoint[1] = latest.rec ELSE kills = 1

\* C6: whatever the kills, the best IoU and the is_best decision a rank
\* holds after evaluating epoch e are those of the uninterrupted run at
\* epoch e, and so is the best IoU stored in latest.pth for its epoch.
C6_ResumeSameTrajectory ==
    /\ \A w \in Ranks : Evaluated(w) =>
          /\ previous_best_iou[w] = UninterruptedBest(epoch[w])
          /\ is_best[w] = UninterruptedIsBest(epoch[w])
    /\ latest.status = "ok" =>
          latest.rec.previous_best_iou = UninterruptedBest(latest.rec.epoch)

C6_Witness ==
    /\ world_size >= 2
    /\ kills >= 1
    /\ checkpoint[1].epoch = 0
    /\ checkpoint[1].previous_best_iou # <<0, 0>>
    /\ Evaluated(1) /\ epoch[1] = 2
    /\ previous_best_iou[1] # checkpoint[1].previous_best_iou

\* C7: a save is atomic with respect to a kill: a file of the save path
\* is incomplete only while rank 0 is inside the torch.save that writes
\* it, so no start-up ever fails on a half-written latest.pth.
C7_AtomicSave ==
    /\ latest.status = "partial" => pc[0] = "save_latest"
    /\ best.status = "partial" => pc[0] = "save_best"
    /\ \A w \in Ranks : pc[w] # "fatal"

\* C8: the overall accuracy evaluate() returns on a rank is the ratio of
\* the correct pixels to the pixels of the shards of all ranks.
C8_GlobalAccuracy ==
    \A w \in Ranks : Evaluated(w) =>
        overall_acc[w] = Frac(TotalCorrect(model[w]), TotalNumel(model[w]))

\* C9: after an evaluation pass the intersection and union totals of a
\* rank are the sums of the per-batch counts over all batches of all
\* ranks' shards, its IoU is their ratio, and ranks that evaluated the
\* same epoch hold the same per-class IoU.
C9_GlobalIoUTotals ==
    /\ \A w \in Ranks : Evaluated(w) =>
          /\ intersection_meter[w] = TotalInt(model[w])
          /\ union_meter[w] = TotalUni(model[w])
          /\ iou_class[w] = IoUClass(TotalInt(model[w]), TotalUni(model[w]))
    /\ \A w, v \in Ranks :
          (Evaluated(w) /\ Evaluated(v) /\ epoch[w] = epoch[v]) =>
              iou_class[w] = iou_class[v]

C9_Witness ==
    /\ world_size >= 2
    /\ valN >= 2
    /\ \A w \in Ranks : Evaluated(w) /\ epoch[w] = 1
    /\ BatchInt(model[0], 0, 0) # BatchInt(model[1], 1, 0)
    /\ union_meter[0] # BatchUni(model[0], 0, 0)
    /\ iou_class[0][2] \notin {<<0, 0>>, <<1, 1>>}

\* the collective calls of all ranks match: two ranks waiting in their
\* k-th call wait in the same call, no rank is more than one call ahead,
\* and no rank waits in a call that a finished rank will never join
SameCollectives ==
    \A w, v \in Ranks :
        /\ (pc[w] \in CollPcs /\ pc[v] \in CollPcs /\ ncoll[w] = ncoll[v]) =>
              pc[w] = pc[v]
        /\ ncoll[w] - ncoll[v] \in {-1, 0, 1}
        /\ (pc[w] \in CollPcs /\ ncoll[v] < ncoll[w]) => pc[v] \in RunPcs \cup
              {"start", "load", "for", "ckpt", "save_latest", "best", "save_best"}
        /\ (pc[w] = "done" /\ pc[v] = "done") => ncoll[w] = ncoll[v]

\* the validation shards of different ranks share no sample
ValShardsDisjoint ==
    \A w, v \in Ranks : \A j \in ShardBatches(w), k \in ShardBatches(v) :
        w # v => ValSample(w, j) # ValSample(v, k)

\* C10: the validation shards are a non-overlapping partition, also for
\* sizes not divisible by world_size, and all ranks issue the same
\* collective calls in the same order and number.
C10_Original == ValShardsDisjoint /\ SameCollectives

\* with the padded shards of the sampler (every rank ceil(n / world_size)
\* samples) the calls do match for every validation set size, and the
\* ranks never end up all blocked in different calls or behind a finished
\* rank
NoRankBlocksForever ==
    /\ SameCollectives
    /\ (\A w \in Ranks : pc[w] \in CollPcs \cup {"done"}) =>
           \A w, v \in Ranks : pc[w] = pc[v]

PaddedShardsRunToEnd ==
    /\ world_size >= 2
    /\ valN % world_size # 0
    /\ ~ValShardsDisjoint
    /\ \A w \in Ranks : pc[w] = "done" /\ ncoll[w] > 0 /\ epoch[w] = Epochs - 1

\* ------------------------------------------------------------ start-up
StartPcs == {"start", "load"}
SavePcs == {"ckpt", "save_latest", "best", "save_best"}

\* C11: while any rank is still in its existence check or load, rank 0 is
\* not in its checkpoint step and no file changes; hence the ranks that
\* have left start-up all failed or all went on, all took the same
\* fresh-or-resumed branch, and they enter the loop with the same record.
C11_SameStartupDecision ==
    /\ [][ (latest' # latest \/ best' # best) =>
              \A w \in Ranks : pc[w] \notin StartPcs ]_vars
    /\ []( (\E w \in Ranks : pc[w] \in StartPcs) => pc[0] \notin SavePcs )
    /\ []( \A w, v \in Ranks :
             (pc[w] \notin StartPcs /\ pc[v] \notin StartPcs) =>
                 /\ pc[w] = "fatal" <=> pc[v] = "fatal"
                 /\ (w # 0 /\ v # 0) => checkpoint[w] = checkpoint[v]
                 /\ (AtStartOfLoop(w) /\ AtStartOfLoop(v)) =>
                       /\ checkpoint[w] = checkpoint[v]
                       /\ CheckpointOf(w) = CheckpointOf(v) )

C11_Witness ==
    /\ world_size >= 2
    /\ kills >= 1
    /\ latest.status = "ok" /\ latest.rec.epoch = 0
    /\ pc[0] \in CollPcs /\ epoch[0] = 1 /\ checkpoint[0] = latest.rec
    /\ pc[1] = "load"

\* C12: a rank leaves start-up into the loop either fresh, and then
\* latest.pth is absent, or with the complete record of latest.pth; with an
\* incomplete latest.pth it can only go to the fatal state, which it never
\* leaves in that process, and while a start-up has failed or the file is
\* incomplete outside rank 0's own save, no file is written.
C12_FreshOnlyWhenAbsent ==
    /\ [][ \A w \in Ranks :
             (pc[w] \in StartPcs /\ pc'[w] \notin StartPcs /\ ~KillStep) =>
                 CASE latest.status = "absent" ->
                          /\ pc'[w] = "for"
                          /\ checkpoint'[w] = NoRec
                          /\ epoch'[w] = -1
                          /\ previous_best_iou'[w] = <<0, 0>>
                   [] latest.status = "ok" ->
                          /\ pc'[w] = "for"
                          /\ checkpoint'[w] = latest.rec
                          /\ epoch'[w] = latest.rec.epoch
                   [] OTHER -> pc'[w] = "fatal" ]_vars
    /\ [][ \A w \in Ranks :
             (pc[w] = "fatal" /\ ~KillStep) => pc'[w] = "fatal" ]_vars
    /\ [][ ( \/ \E w \in Ranks : pc[w] = "fatal"
             \/ latest.status = "partial" /\ pc[0] # "save_latest" ) =>
              UNCHANGED fileVars ]_vars

C12_Witness ==
    /\ kills >= 1
    /\ latest.status = "partial"
    /\ \A w \in Ranks : pc[w] = "fatal"
    /\ \A w \in Ranks : checkpoint[w] = NoRec /\ epoch[w] = -1

\* ------------------------------------------------------ ignore label
EvalPcs == {"eval_batch", "ar_int", "ar_uni", "ar_tgt", "meter", "eval_end"}

\* the pixels of a ground-truth mask that do not carry the ignore label
ValidPixels(m) == {k \in Pixels(m) : m[k] # IgnoreLabel}

\* C13: inside evaluate, after any number of batches, a rank's
\* correct-pixel and total-pixel counters count only pixels whose ground
\* truth is not the ignore label.
C13_IgnoreExcludedFromAccuracy ==
    \A w \in Ranks : pc[w] \in EvalPcs =>
        LET done == 0 .. (b[w] - 1)
            m(j) == ValMask(ValSample(w, j))
            p(j) == Predict(model[w], ValSample(w, j))
        IN  /\ correct_pixel[w] =
                 SumOver(done, [j \in done |->
                     Count({k \in ValidPixels(m(j)) : p(j)[k] = m(j)[k]})])
            /\ total_pixel[w] =
                 SumOver(done, [j \in done |-> Count(ValidPixels(m(j)))])

\* ------------------------------------------------- iteration counter
\* a rank's step from line 179 to line 186
TrainStep(w) == pc[w] = "opt" /\ pc'[w] # "opt" /\ ~KillStep

\* C14: every training step of every rank, in a fresh and in a resumed
\* process, sets the iteration counter to epoch * len(trainloader) + i
\* with 0 <= iters <= total_iters, and the base of the power, which is
\* (total_iters - iters) / total_iters, lies in [0, 1]; the counter and
\* the base stay in these ranges in every state.
C14_IterationCounterInRange ==
    /\ [][ \A w \in Ranks : TrainStep(w) =>
              /\ iters'[w] = epoch[w] * LenTrainLoader + i[w]
              /\ i[w] >= 0 /\ i[w] < LenTrainLoader
              /\ epoch[w] >= 0 /\ epoch[w] < Epochs
              /\ iters'[w] >= 0 /\ iters'[w] <= total_iters
              /\ lr'[w][1] * total_iters = lr'[w][2] * (total_iters - iters'[w])
         ]_vars
    /\ []( \A w \in Ranks :
              /\ iters[w] >= 0 /\ iters[w] <= total_iters
              /\ lr[w][2] > 0
              /\ lr[w][1] >= 0 /\ lr[w][1] <= lr[w][2] )

C14_Witness ==
    \E w \in Ranks :
        /\ kills >= 1
        /\ total_pixel[w] = 0
        /\ checkpoint[w] # NoRec /\ checkpoint[w].epoch = Epochs - 2
        /\ pc[w] = "eval" /\ epoch[w] = Epochs - 1
        /\ iters[w] = total_iters - 1 /\ iters[w] > 0
        /\ lr[w] = Frac(1, total_iters)

\* ---------------------------------------------- counter along the run
\* a rank has taken no training step in this process yet
NoStepYet(w) == i[w] = 0 /\ total_pixel[w] = 0

\* the counter of the first training step of a process that starts with
\* the file f: lines 144-150, 157, 183
FirstIter(f) == IF Exists(f) THEN GlobalIter(NextEpoch(f.rec.epoch), 0) ELSE 0

\* C15 as stated: the counter goes up by one from each training step to
\* the next also when a kill lies between the two steps: the first step of
\* the re-invoked process, which starts from the files left at the kill,
\* has the counter of the last step before the kill plus one.
C15_Original ==
    [][ \A w \in Ranks :
          /\ (TrainStep(w) /\ ~NoStepYet(w)) => iters'[w] = iters[w] + 1
          /\ ( /\ KillStep /\ ~NoStepYet(w)
               /\ latest.status # "partial"
               /\ FirstIter(latest) < total_iters ) =>
                 FirstIter(latest) = iters[w] + 1 ]_vars

\* C15: inside one process the counter goes up by one from each training
\* step to the next, across epoch boundaries, and the rate assigned by a
\* step is lower than the one assigned by the step before; the first step
\* of a process has the counter 0 when it started fresh and the counter
\* after the last step of the record's epoch when it resumed, and then
\* assigns a rate lower than the restored one; every step assigns the
\* head rate as the backbone rate times lr_multi.
C15_CounterStepsByOne ==
    [][ \A w \in Ranks : TrainStep(w) =>
          /\ lr_head'[w] = <<lr'[w], LrMulti>>
          /\ IF ~NoStepYet(w)
             THEN iters'[w] = iters[w] + 1 /\ FracLt(lr'[w], lr[w])
             ELSE IF checkpoint[w] = NoRec
             THEN iters'[w] = 0 /\ lr'[w] = BaseLr
             ELSE /\ iters'[w] = (checkpoint[w].epoch + 1) * LenTrainLoader
                  /\ lr[w] = checkpoint[w].optimizer[1]
                  /\ FracLt(lr'[w], lr[w]) ]_vars

C15_Witness ==
    \E w \in Ranks :
        /\ kills >= 1
        /\ total_pixel[w] = 0
        /\ checkpoint[w] # NoRec
        /\ i[w] = 2
        /\ iters[w] = (checkpoint[w].epoch + 1) * LenTrainLoader + 1
        /\ FracLt(lr[w], checkpoint[w].optimizer[1])
        /\ lr_head[w] = <<lr[w], LrMulti>>

PerEpochCollectives(w) == LenTrainLoader + 3 * LenValLoader(w)

\* a rank that resumed from the record of the last epoch and has done
\* nothing since
ResumedAtEnd(w) == checkpoint[w].epoch = Epochs - 1 /\ total_pixel[w] = 0

\* C17: a process group that starts with latest.pth absent or complete and
\* is not killed brings every rank to the end of main(); a rank leaves the
\* loop only with epoch = epochs - 1, after its evaluation of that epoch
\* and, for rank 0, with that epoch's complete record in latest.pth; the
\* range starts at 0 in a fresh process and at e + 1 after a resume from a
\* record of epoch e, the epoch goes up by one per pass, and a finished
\* rank has made the collective calls of exactly epochs - range start
\* passes; after a resume from epochs - 1 there is no pass, no training
\* step and no write.
C17_RunsRemainingEpochs ==
    /\ \A k \in 0 .. MaxKills :
          (kills = k /\ latest.status # "partial"
                     /\ \A w \in Ranks : pc[w] = "start")
             ~> ((\A w \in Ranks : pc[w] = "done") \/ kills > k)
    /\ [][ \A w \in Ranks : ~KillStep =>
              /\ (pc'[w] = "done" /\ pc[w] # "done") =>
                    /\ epoch[w] = Epochs - 1
                    /\ ~ResumedAtEnd(w) =>
                          /\ Evaluated(w)
                          /\ w = 0 => /\ latest.status = "ok"
                                      /\ latest.rec = checkpoint[0]
                                      /\ latest.rec.epoch = Epochs - 1
              /\ range_start'[w] # range_start[w] =>
                    /\ pc[w] = "for" /\ NoStepYet(w)
                    /\ range_start'[w] = checkpoint[w].epoch + 1
              /\ (epoch'[w] # epoch[w] /\ pc[w] # "load") =>
                    /\ epoch'[w] = epoch[w] + 1
                    /\ epoch'[w] >= range_start'[w] /\ epoch'[w] < Epochs
              /\ ResumedAtEnd(0) => UNCHANGED fileVars ]_vars
    /\ []( \A w \in Ranks :
              /\ pc[w] = "done" =>
                    ncoll[w] = (Epochs - range_start[w]) * PerEpochCollectives(w)
              /\ (ResumedAtEnd(w) /\ pc[w] \notin StartPcs) =>
                    /\ pc[w] \in {"for", "done"}
                    /\ ncoll[w] = 0
                    /\ model[w] = checkpoint[w].model )

C17_Witness ==
    /\ kills >= 1
    /\ \A w \in Ranks :
          /\ pc[w] = "done"
          /\ range_start[w] = 1
          /\ ncoll[w] = (Epochs - 1) * PerEpochCollectives(w)
    /\ latest.status = "ok" /\ latest.rec.epoch = Epochs - 1
    /\ LenTrainLoader > 0

\* ---------------------------------------------- agreement of the ranks
\* two ranks stand at the end of the same epoch
SameEpochEnd(w, v) == Evaluated(w) /\ Evaluated(v) /\ epoch[w] = epoch[v]

\* the part of the agreement that rests on the reduced IoU only
BestIouAgreement ==
    \A w, v \in Ranks : SameEpochEnd(w, v) =>
        /\ is_best[w] = is_best[v]
        /\ previous_best_iou[w] = previous_best_iou[v]

\* C18: at the end of an epoch all ranks hold the same is_best, the same
\* previous_best_iou and the same previous_best_acc.
C18_BestTrackersAgree ==
    /\ BestIouAgreement
    /\ \A w, v \in Ranks : SameEpochEnd(w, v) =>
          previous_best_acc[w] = previous_best_acc[v]

\* ------------------------------------------------- best.pth and latest.pth
\* C19: whenever rank 0 is outside its checkpoint step and latest.pth holds
\* a complete record, best.pth holds a complete record with the same
\* previous_best_iou.
C19_BestMatchesLatest ==
    (pc[0] \notin SavePcs /\ latest.status = "ok") =>
        /\ best.status = "ok"
        /\ best.rec.previous_best_iou = latest.rec.previous_best_iou

\* ------------------------------------------------- rate used by a step
\* C20: the optimizer step of global iteration k uses the base rate when
\* k = 0 and the schedule value of k - 1 otherwise, in the first step of a
\* fresh and of a resumed process and across epoch boundaries; the rate a
\* resume restores is the schedule value of the last iteration of the
\* record's epoch.
C20_StepUsesPreviousRate ==
    /\ [][ \A w \in Ranks : TrainStep(w) =>
              /\ stepLr'[w] = IF iters'[w] = 0 THEN BaseLr
                              ELSE LrAt(iters'[w] - 1)
              /\ iters'[w] = 1 => stepLr'[w] = LrAt(0) ]_vars
    /\ []( LenTrainLoader > 0 =>
             \A w \in Ranks :
                (pc[w] = "for" /\ NoStepYet(w) /\ checkpoint[w] # NoRec) =>
                    lr[w] = LrAt((checkpoint[w].epoch + 1) * LenTrainLoader - 1) )

C20_Witness ==
    \E w \in Ranks :
        /\ kills >= 1
        /\ total_pixel[w] = 0 /\ i[w] = 1
        /\ checkpoint[w] # NoRec
        /\ iters[w] = (checkpoint[w].epoch + 1) * LenTrainLoader
        /\ stepLr[w] = checkpoint[w].optimizer[1]
        /\ stepLr[w] = LrAt(iters[w] - 1)
        /\ stepLr[w] # BaseLr

====
